---- MODULE Spec2Model ----
(***************************************************************************)
(* A model of wulun0102/morefusion:                                        *)
(*   examples/ycb_video/multiview_3d/contrib/models/baseline.py            *)
(*     BaselineModel.predict / __call__ / evaluate / loss and              *)
(*     VoxelFeatureExtractor.__call__                                      *)
(*   objslampp/datasets/ycb_video_multi_view_pose_estimation.py            *)
(*     YCBVideoMultiViewPoseEstimationDataset.get_ids / _get_scan_data     *)
(*                                                                         *)
(* Abstractions.  Space has one axis instead of three, so a point is one   *)
(* integer coordinate, a rotation is +1 or -1 (the orthogonal maps of a    *)
(* line) and a voxel grid is a row of VoxelDim cells.  A feature map has   *)
(* one channel.  Real numbers are exact fractions <<n, d>>; the fraction   *)
(* <<0, 0>> is the float not-a-number that numpy produces for 0/0.         *)
(* Arrays are functions over 0..B-1, as Python indexes them; Python lists  *)
(* are sequences.  The learned layers (ResNet, PSPNet, the 3D convolutions *)
(* and the linear heads) are arbitrary functions: the feature map is an    *)
(* input and the heads' outputs are chosen nondeterministically.           *)
(***************************************************************************)
EXTENDS Integers, Sequences, FiniteSets, TLC

\* The largest batch size B.
MaxB == 2
\* The cells of a grid axis (the program's _voxel_dim is 32).
VoxelDim == 3

\* ------------------------------------------------------------------------
\* Exact fractions.

RECURSIVE Gcd(_, _)
Gcd(a, b) == IF b = 0 THEN a ELSE Gcd(b, a % b)

Abs(a) == IF a < 0 THEN 0 - a ELSE a

\* The float 0/0.
QNaN == <<0, 0>>

IsNaN(q) == q[2] = 0

\* n/d in lowest terms with d > 0; 0/0, and anything over 0, is not-a-number.
Frac(n, d) ==
    IF d = 0 THEN QNaN
    ELSE LET g == Gcd(Abs(n), Abs(d))
             s == IF d < 0 THEN 0 - 1 ELSE 1
         IN  <<(s * n) \div g, (s * d) \div g>>

QInt(n) == <<n, 1>>

QAdd(p, q) ==
    IF IsNaN(p) \/ IsNaN(q) THEN QNaN
    ELSE Frac(p[1] * q[2] + q[1] * p[2], p[2] * q[2])

QMul(p, q) ==
    IF IsNaN(p) \/ IsNaN(q) THEN QNaN ELSE Frac(p[1] * q[1], p[2] * q[2])

QLess(p, q) == p[1] * q[2] < q[1] * p[2]

QNeg(p) == <<0 - p[1], p[2]>>

QSub(p, q) == QAdd(p, QNeg(q))

QAbs(p) == <<Abs(p[1]), p[2]>>

\* The least of a nonempty finite set of fractions; not-a-number if one is.
QMinOf(S) ==
    IF \E q \in S : IsNaN(q) THEN QNaN
    ELSE CHOOSE m \in S : \A q \in S : ~QLess(q, m)

RECURSIVE QSumSeq(_)
QSumSeq(s) == IF s = <<>> THEN QInt(0) ELSE QAdd(Head(s), QSumSeq(Tail(s)))

\* The mean of a sequence of fractions.
QMean(s) == QMul(QSumSeq(s), Frac(1, Len(s)))

RECURSIVE SumSeq(_)
SumSeq(s) == IF s = <<>> THEN 0 ELSE Head(s) + SumSeq(Tail(s))

\* ------------------------------------------------------------------------
\* objslampp.functions: rigid transforms and the average voxelizer.

\* quaternion_matrix: the rotation of a unit quaternion (here +1 or -1).
quaternion_matrix(q) == q

\* compose_transform(R, t): the homogeneous transform x |-> R x + t.
compose_transform(R, t) == [R |-> R, t |-> t]

\* F.inv of a rigid transform: x |-> R^T x - R^T t.
inv(T) == [R |-> T.R, t |-> 0 - T.R * T.t]

\* transform_points(points, T): T applied to each point.
transform_points(points, T) ==
    [k \in 1..Len(points) |-> T.R * points[k] + T.t]

\* The grid index of a point: floor((point - origin) / pitch).
VoxelIndex(point, org, pit) == (point - org) \div pit

Cells == 0..(VoxelDim - 1)

\* The values of the points that fall into cell x, in input order.
RECURSIVE CellValues(_, _, _, _, _)
CellValues(values, points, org, pit, x) ==
    IF points = <<>> THEN <<>>
    ELSE LET rest == CellValues(Tail(values), Tail(points), org, pit, x)
         IN  IF VoxelIndex(Head(points), org, pit) = x
             THEN <<Head(values)>> \o rest
             ELSE rest

\* average_voxelization_3d(..., return_counts=True): per cell the mean of the
\* values of the points inside it (zero for an empty cell) and their count;
\* a point outside the grid is dropped.
average_voxelization_3d(values, points, org, pit) ==
    [grid   |-> [x \in Cells |->
                   LET vs == CellValues(values, points, org, pit, x)
                   IN  IF vs = <<>> THEN QInt(0) ELSE Frac(SumSeq(vs), Len(vs))],
     counts |-> [x \in Cells |-> Len(CellValues(values, points, org, pit, x))]]

\* A merge that keeps the later grid instead of the larger value.
maximumKeepsLast(a, b) == b

\* F.maximum(a, b), elementwise.
maximum(a, b) == [x \in Cells |-> IF QLess(a[x], b[x]) THEN b[x] ELSE a[x]]

\* ------------------------------------------------------------------------
\* Inputs.

\* Python's None: no array at all.
None == <<>>

\* A pixel of a point map: not-a-number, or a measured coordinate.
NaNPix == [nan |-> TRUE, x |-> 0]
Pix(x) == [nan |-> FALSE, x |-> x]

\* The views an input batch is drawn from: one batch element each, with its
\* class, voxel pitch and grid origin, the point map and feature map of its
\* image (two pixels), and its ground-truth pose.
Views ==
    { [class_id |-> 1, pitch |-> 1, origin |-> 0,
       pcd |-> <<Pix(0), Pix(1)>>, h_rgb |-> <<1, 2>>,
       quaternion_true |-> 1, translation_true |-> 0],
      [class_id |-> 1, pitch |-> 1, origin |-> 0,
       pcd |-> <<Pix(2), Pix(2)>>, h_rgb |-> <<3, 0>>,
       quaternion_true |-> 1, translation_true |-> 1],
      [class_id |-> 2, pitch |-> 2, origin |-> 1,
       pcd |-> <<Pix(3), NaNPix>>, h_rgb |-> <<2, 5>>,
       quaternion_true |-> 0 - 1, translation_true |-> 4],
      [class_id |-> 2, pitch |-> 1, origin |-> 0,
       pcd |-> <<NaNPix, NaNPix>>, h_rgb |-> <<4, 4>>,
       quaternion_true |-> 1, translation_true |-> 0],
      [class_id |-> 1, pitch |-> 1, origin |-> 0 - 1,
       pcd |-> <<Pix(7), Pix(0 - 1)>>, h_rgb |-> <<1, 1>>,
       quaternion_true |-> 0 - 1, translation_true |-> 0] }

\* What the rotation head and the translation head can put out for one
\* instance: a unit quaternion, and a residual in voxel units.
Quaternions == {1, 0 - 1}
Residuals == {1}

VARIABLES
    train,              \* chainer.config.train
    entry,              \* the method the caller invoked
    class_id, pitch, origin, h_rgb, pcd,    \* the batch, an array each
    quaternion_true, translation_true,      \* ground truth, or None
    pc,                 \* where control is
    error,              \* the exception raised, if any
    i,                  \* the loop variable of the running loop
    h_i, actives_i,     \* the grid and mask of instance i being built
    n_fuse,             \* the last draw of np.random.randint
    indices,            \* the views still to fuse into instance i
    fused,              \* per instance, the views merged into it, in order
    h, actives,         \* the grids and masks appended so far
    centroids,          \* the centroids appended so far
    quaternion, translation,    \* what predict returns
    prev,               \* the previous completed call of predict
    loss_arg, loss_scale_arg,       \* what the constructor was given
    self_loss, self_loss_scale,     \* self._loss, self._loss_scale
    loss, loss_i,       \* the loss, and the term of the last instance
    reported,           \* the keys handed to chainer.report
    frames,             \* the dataset: image id |-> cls_indexes of its frame
    imageset_file,      \* the lines of image_sets/<split>.txt
    sampling,           \* the sampling argument of get_ids
    ds_pc,              \* where the dataset code is
    line,               \* the number of lines get_ids has read
    video2class_ids,    \* the dict of get_ids
    ids,                \* the list, then tuple, of get_ids
    frame_ids,          \* the frame list of the last _get_scan_data
    scan_image_id,      \* the image_id argument of the last _get_scan_data
    ds_error            \* the exception the dataset code raised, if any

inputs == <<class_id, pitch, origin, h_rgb, pcd, quaternion_true,
            translation_true>>
locals == <<i, h_i, actives_i, n_fuse, indices, fused, h, actives,
            centroids>>
outputs == <<quaternion, translation>>
model == <<loss_arg, loss_scale_arg, self_loss, self_loss_scale>>
callst == <<loss, loss_i, reported>>
dataset == <<frames, imageset_file, sampling, ds_pc, line, video2class_ids,
             ids, frame_ids, scan_image_id, ds_error>>
vars == <<train, entry, inputs, pc, error, locals, outputs, prev, model,
          callst, dataset>>

\* The batch size: rgb.shape[0].
B == Cardinality(DOMAIN class_id)
Batch == 0..(B - 1)

\* ------------------------------------------------------------------------
\* BaselineModel.predict

\* seq[mask]: the entries of seq at the pixels whose point is a number.
RECURSIVE Masked(_, _)
Masked(seq, pcd_i) ==
    IF pcd_i = <<>> THEN <<>>
    ELSE IF Head(pcd_i).nan THEN Masked(Tail(seq), Tail(pcd_i))
         ELSE <<Head(seq)>> \o Masked(Tail(seq), Tail(pcd_i))

Coords(pcd_i) == [k \in 1..Len(pcd_i) |-> pcd_i[k].x]

\* The valid points of view j and their feature values.
ViewValues(j) == Masked(h_rgb[j], pcd[j])
ViewPoints(j) == Masked(Coords(pcd[j]), pcd[j])

\* The ground-truth transform of view j, CAD frame to camera frame.
T_cad2cam(j) ==
    compose_transform(quaternion_matrix(quaternion_true[j]),
                      translation_true[j])

\* xp.where(c)[0] of a scalar c: numpy reads a 0-d array as the array [c],
\* so the result is [0] when c is nonzero and [] when it is zero.
Where(c) == IF c # 0 THEN <<0>> ELSE <<>>

\* Lines 120-121: the candidate auxiliary views of instance k.
Candidates(k) == SelectSeq(Where(class_id[k]), LAMBDA j : j # k)

Range(s) == {s[k] : k \in DOMAIN s}

\* np.random.choice(a, n, replace=False): n distinct entries of a, any order.
Choice(a, n) ==
    {s \in [1..n -> Range(a)] : \A k, l \in 1..n : k # l => s[k] # s[l]}

\* Lines 122-127: what np.random leaves in indices for a draw n of n_fuse.
Selected(cands, n) == IF n > 0 THEN Choice(cands, n) ELSE {cands}

\* Lines 129-160: the grid and counts of view j, reprojected into the frame of
\* instance k and voxelized with the origin and pitch of instance k.
AuxVoxelization(k, j) ==
    average_voxelization_3d(
        ViewValues(j),
        transform_points(transform_points(ViewPoints(j), inv(T_cad2cam(j))),
                         T_cad2cam(k)),
        origin[k], pitch[k])

\* A primary voxelization anchored at the origin of batch element 0.
PrimaryVoxelizationAtFirstOrigin(k) ==
    average_voxelization_3d(ViewValues(k), ViewPoints(k), origin[0], pitch[k])

\* Lines 101-110: the grid and counts of instance k's own view.
PrimaryVoxelization(k) ==
    average_voxelization_3d(ViewValues(k), ViewPoints(k), origin[k], pitch[k])

Occupied(counts) == [x \in Cells |-> counts[x] > 0]

\* Fusion in inference mode too.
FuseAlways == TRUE

\* Line 112: auxiliary views are fused only in training mode.
FuseAuxiliary == train

\* Lines 68-86: the casts; a ground truth left at None has no astype.
PredictPrepare ==
    /\ pc = "predict"
    /\ IF quaternion_true = None \/ translation_true = None
       THEN /\ error' = "AttributeError"
            /\ pc' = "raised"
            /\ UNCHANGED locals
       ELSE /\ pc' = "voxelize"
            /\ i' = 0
            /\ h' = <<>>
            /\ actives' = <<>>
            /\ fused' = <<>>
            /\ UNCHANGED <<error, h_i, actives_i, n_fuse, indices, centroids>>
    /\ UNCHANGED <<dataset, model, callst, train, entry, inputs, outputs, prev>>

\* Lines 90-112: the primary view of instance i.
VoxelizePrimary ==
    /\ pc = "voxelize"
    /\ LET v == PrimaryVoxelization(i)
       IN  /\ h_i' = v.grid
           /\ actives_i' = Occupied(v.counts)
    /\ indices' = <<>>
    /\ fused' = fused @@ (i :> <<>>)
    /\ pc' = IF FuseAuxiliary THEN "select" ELSE "append"
    /\ UNCHANGED <<dataset, model, callst, train, entry, inputs, error, i, n_fuse, h, actives,
                   centroids, outputs, prev>>

\* Lines 113-127: the auxiliary views to fuse.
SelectViews ==
    /\ pc = "select"
    /\ LET cands == Candidates(i)
       IN  IF Len(cands) > 0
           THEN \E n \in 0..Len(cands) :
                    /\ n_fuse' = n
                    /\ indices' \in Selected(cands, n)
           ELSE /\ indices' = cands
                /\ UNCHANGED n_fuse
    /\ pc' = "fuse"
    /\ UNCHANGED <<dataset, model, callst, train, entry, inputs, error, i, h_i, actives_i, fused, h,
                   actives, centroids, outputs, prev>>

\* Lines 128-163: one round of the loop over indices.
FuseView ==
    /\ pc = "fuse"
    /\ indices # <<>>
    /\ LET j == Head(indices)
           v == AuxVoxelization(i, j)
       IN  /\ h_i' = maximum(h_i, v.grid)
           /\ actives_i' = [x \in Cells |-> actives_i[x] \/ v.counts[x] > 0]
           /\ fused' = [fused EXCEPT ![i] = Append(@, j)]
    /\ indices' = Tail(indices)
    /\ UNCHANGED <<dataset, model, callst, train, entry, inputs, pc, error, i, n_fuse, h, actives,
                   centroids, outputs, prev>>

\* Lines 165-166, and the end of the loop at lines 167-168.
AppendInstance ==
    /\ \/ pc = "append"
       \/ pc = "fuse" /\ indices = <<>>
    /\ h' = h @@ (i :> h_i)
    /\ actives' = actives @@ (i :> actives_i)
    /\ IF i + 1 < B
       THEN /\ i' = i + 1
            /\ pc' = "voxelize"
            /\ UNCHANGED centroids
       ELSE /\ i' = 0
            /\ pc' = "centroid"
            /\ centroids' = <<>>
    /\ UNCHANGED <<dataset, model, callst, train, entry, inputs, error, h_i, actives_i, n_fuse,
                   indices, fused, outputs, prev>>

\* The cells of a mask that are occupied: xp.where(mask).
ActiveCells(mask) == {x \in Cells : mask[x]}

RECURSIVE SumSet(_)
SumSet(S) == IF S = {} THEN 0
             ELSE LET x == CHOOSE y \in S : TRUE IN x + SumSet(S \ {x})

\* Lines 173-174: the mean index of the occupied cells, in world units; the
\* mean of no cells is 0/0, which numpy returns as not-a-number.
Centroid(mask, pit, org) ==
    LET A == ActiveCells(mask)
    IN  QAdd(QMul(Frac(SumSet(A), Cardinality(A)), QInt(pit)), QInt(org))

\* Lines 171-176: the centroid of instance i.
CentroidStep ==
    /\ pc = "centroid"
    /\ centroids' = centroids @@ (i :> Centroid(actives[i], pitch[i], origin[i]))
    /\ IF i + 1 < B
       THEN i' = i + 1 /\ UNCHANGED pc
       ELSE i' = 0 /\ pc' = "extract"
    /\ UNCHANGED <<dataset, model, callst, train, entry, inputs, error, h_i, actives_i, n_fuse,
                   indices, fused, h, actives, outputs, prev>>

\* Lines 178-199: the encoder and the heads.  The heads are learned, so each
\* instance gets any unit quaternion and any residual; the translation is the
\* centroid plus the residual in world units.
ExtractReturn ==
    /\ pc = "extract"
    /\ \E q \in [Batch -> Quaternions], r \in [Batch -> Residuals] :
           /\ quaternion' = q
           /\ translation' =
                  [k \in Batch |-> QAdd(centroids[k], QInt(r[k] * pitch[k]))]
    /\ pc' = IF entry = "__call__" THEN "evaluate" ELSE "returned"
    /\ UNCHANGED <<dataset, model, callst, train, entry, inputs, error, locals, prev>>

\* VoxelFeatureExtractor.__call__, lines 405-410: F.average over the rows of
\* the occupied cells.  With no occupied cell it averages an empty axis, and
\* chainer divides the sum by the axis length 0; depending on the chainer
\* release that is a ZeroDivisionError or a not-a-number embedding, so either
\* may happen.
ExtractRaise ==
    /\ pc = "extract"
    /\ \E k \in Batch : ActiveCells(actives[k]) = {}
    /\ error' = "ZeroDivisionError"
    /\ pc' = "raised"
    /\ UNCHANGED <<dataset, model, callst, train, entry, inputs, locals, outputs, prev>>

SetView(arr, j, x) == [arr EXCEPT ![j] = x]

\* The caller invokes predict again on a batch that differs from the last one
\* in the inputs of one element.
PredictAgain ==
    /\ pc = "returned"
    /\ entry = "predict"
    /\ prev' = [class_id |-> class_id, pitch |-> pitch, origin |-> origin,
                h_rgb |-> h_rgb, pcd |-> pcd,
                quaternion_true |-> quaternion_true,
                translation_true |-> translation_true,
                h |-> h, actives |-> actives, centroids |-> centroids,
                fused |-> fused]
    /\ \E j \in Batch, v \in Views :
           /\ class_id' = SetView(class_id, j, v.class_id)
           /\ pitch' = SetView(pitch, j, v.pitch)
           /\ origin' = SetView(origin, j, v.origin)
           /\ h_rgb' = SetView(h_rgb, j, v.h_rgb)
           /\ pcd' = SetView(pcd, j, v.pcd)
           /\ quaternion_true' = SetView(quaternion_true, j, v.quaternion_true)
           /\ translation_true' =
                  SetView(translation_true, j, v.translation_true)
    /\ pc' = "predict"
    /\ i' = 0
    /\ h_i' = <<>>
    /\ actives_i' = <<>>
    /\ n_fuse' = 0
    /\ indices' = <<>>
    /\ fused' = <<>>
    /\ h' = <<>>
    /\ actives' = <<>>
    /\ centroids' = <<>>
    /\ quaternion' = <<>>
    /\ translation' = <<>>
    /\ UNCHANGED <<dataset, model, callst, train, entry, error>>

BatchOf(views) ==
    /\ class_id = [k \in DOMAIN views |-> views[k].class_id]
    /\ pitch = [k \in DOMAIN views |-> views[k].pitch]
    /\ origin = [k \in DOMAIN views |-> views[k].origin]
    /\ h_rgb = [k \in DOMAIN views |-> views[k].h_rgb]
    /\ pcd = [k \in DOMAIN views |-> views[k].pcd]

Idle ==
    /\ error = "none"
    /\ i = 0
    /\ h_i = <<>>
    /\ actives_i = <<>>
    /\ n_fuse = 0
    /\ indices = <<>>
    /\ fused = <<>>
    /\ h = <<>>
    /\ actives = <<>>
    /\ centroids = <<>>
    /\ quaternion = <<>>
    /\ translation = <<>>
    /\ prev = None
    /\ loss = QInt(0)
    /\ loss_i = QInt(0)
    /\ reported = {}

\* ------------------------------------------------------------------------
\* BaselineModel.__init__

LossModes == {"add", "add_s", "add/add_s", "add+add_s"}

\* The loss argument: a mode, or "None" for the default None.
LossArgs == LossModes \cup {"None"}

\* Line 28.
InitLoss(arg) == IF arg = "None" THEN "add/add_s" ELSE arg

\* The loss_scale argument: None, or a dict from mode to weight; here the
\* empty dict and dicts with the weight 1/4 or 3/2 for 'add+add_s'.
LossScaleArgs ==
    {[none |-> TRUE, dict |-> <<>>], [none |-> FALSE, dict |-> <<>>]}
    \cup {[none |-> FALSE, dict |-> ("add+add_s" :> w)] :
              w \in {<<1, 4>>, <<3, 2>>}}

\* Lines 36-40.
InitLossScale(arg) ==
    IF arg.none THEN ("add+add_s" :> <<1, 2>>) ELSE arg.dict

\* The model object as constructed with the given arguments.
Constructed(l, ls) ==
    /\ loss_arg = l
    /\ loss_scale_arg = ls
    /\ self_loss = InitLoss(l)
    /\ self_loss_scale = InitLossScale(ls)

\* No dataset in use.
DatasetIdle ==
    /\ frames = <<>>
    /\ imageset_file = <<>>
    /\ sampling = 1
    /\ ds_pc = "idle"
    /\ line = 0
    /\ video2class_ids = <<>>
    /\ ids = <<>>
    /\ frame_ids = <<>>
    /\ scan_image_id = ""
    /\ ds_error = "none"

\* A caller of predict: a batch of 1..MaxB views, training mode on or off, the
\* ground truth passed or left at its default None.
Init ==
    /\ train \in BOOLEAN
    /\ entry = "predict"
    /\ pc = "predict"
    /\ \E n \in 1..MaxB : \E views \in [0..(n - 1) -> Views] :
           /\ BatchOf(views)
           /\ \/ /\ quaternion_true =
                        [k \in DOMAIN views |-> views[k].quaternion_true]
                 /\ translation_true =
                        [k \in DOMAIN views |-> views[k].translation_true]
              \/ /\ quaternion_true = None
                 /\ translation_true = None
    /\ Constructed("None", [none |-> TRUE, dict |-> <<>>])
    /\ Idle
    /\ DatasetIdle

Predict ==
    \/ PredictPrepare
    \/ VoxelizePrimary
    \/ SelectViews
    \/ FuseView
    \/ AppendInstance
    \/ CentroidStep
    \/ ExtractReturn
    \/ ExtractRaise

Next == Predict \/ PredictAgain

Spec == Init /\ [][Next]_vars

\* The largest batch of a caller that calls predict twice.
MaxAgainB == 3

\* A caller of predict who calls it again on a changed batch: a batch of
\* 1..MaxAgainB views, training mode on or off, the ground truth passed or
\* left at its default None.
InitAgain ==
    /\ train \in BOOLEAN
    /\ entry = "predict"
    /\ pc = "predict"
    /\ \E n \in 1..MaxAgainB : \E views \in [0..(n - 1) -> Views] :
           /\ BatchOf(views)
           /\ \/ /\ quaternion_true =
                        [k \in DOMAIN views |-> views[k].quaternion_true]
                 /\ translation_true =
                        [k \in DOMAIN views |-> views[k].translation_true]
              \/ /\ quaternion_true = None
                 /\ translation_true = None
    /\ Constructed("None", [none |-> TRUE, dict |-> <<>>])
    /\ Idle
    /\ DatasetIdle

SpecAgain == InitAgain /\ [][Next]_vars

\* ------------------------------------------------------------------------
\* BaselineModel.__call__, evaluate and loss

\* objslampp.datasets.ycb_video.class_ids_symmetric: the symmetric classes.
class_ids_symmetric == {2}

\* self._models.get_pcd(class_id): the CAD points of a class; those of the
\* symmetric class are their own mirror image.
get_pcd(c) == IF c \in class_ids_symmetric THEN <<0 - 1, 0, 1>> ELSE <<0, 1, 3>>

\* A transform applied to one point, the translation being a fraction.
TransformPoint(point, T) == QAdd(QInt(T.R * point), T.t)

\* objslampp.functions.average_distance_l1: the mean over the points of the
\* distance between the point under transform1 and the same point under
\* transform2 (ADD) or, if symmetric, the nearest point under transform2
\* (ADD-S).
average_distance_l1(points, transform1, transform2, symmetric) ==
    QMean([k \in 1..Len(points) |->
              IF symmetric
              THEN QMinOf({QAbs(QSub(TransformPoint(points[k], transform1),
                                     TransformPoint(points[l], transform2))) :
                              l \in 1..Len(points)})
              ELSE QAbs(QSub(TransformPoint(points[k], transform1),
                             TransformPoint(points[k], transform2)))])

\* Lines 305-315: the true and the predicted transform of instance k.
T_cad2cam_true(k) ==
    compose_transform(quaternion_matrix(quaternion_true[k]),
                      QInt(translation_true[k]))
T_cad2cam_pred(k) ==
    compose_transform(quaternion_matrix(quaternion[k]), translation[k])

\* The flags of 'add' and 'add_s' exchanged.
is_symmetric_swapped(c) ==
    CASE self_loss = "add" -> TRUE
      [] self_loss = "add_s" -> FALSE
      [] OTHER -> c \in class_ids_symmetric

\* Lines 335-342: is_symmetric in the modes with one distance.
is_symmetric(c) ==
    CASE self_loss = "add" -> FALSE
      [] self_loss = "add_s" -> TRUE
      [] OTHER -> c \in class_ids_symmetric

\* Lines 343-373: loss_i of instance k.
LossTerm(k) ==
    LET cad_pcd == get_pcd(class_id[k])
        dist(sym) == average_distance_l1(cad_pcd, T_cad2cam_true(k),
                                         T_cad2cam_pred(k), sym)
    IN  IF self_loss \in {"add", "add_s", "add/add_s"}
        THEN dist(is_symmetric(class_id[k]))
        ELSE QAdd(QMul(self_loss_scale["add+add_s"], dist(FALSE)),
                  QMul(QSub(QInt(1), self_loss_scale["add+add_s"]),
                       dist(TRUE)))

\* A filter that keeps the invalid instances.
KeepAll(k) == TRUE

\* Line 212: keep = class_id != -1.
Keep(k) == class_id[k] # 0 - 1

\* The kept indexes in ascending order.
RECURSIVE KeptFrom(_, _)
KeptFrom(k, n) ==
    IF k >= n THEN <<>>
    ELSE (IF Keep(k) THEN <<k>> ELSE <<>>) \o KeptFrom(k + 1, n)

\* arr[keep].
Compress(arr) ==
    LET kept == KeptFrom(0, B)
    IN  [k \in 0..(Len(kept) - 1) |-> arr[kept[k + 1]]]

\* Lines 212-232: the filter, then the early return or the call of predict.
CallFilter ==
    /\ pc = "call"
    /\ IF KeptFrom(0, B) = <<>>
       THEN /\ loss' = QInt(0)
            /\ pc' = "returned"
            /\ UNCHANGED inputs
       ELSE /\ class_id' = Compress(class_id)
            /\ pitch' = Compress(pitch)
            /\ origin' = Compress(origin)
            /\ h_rgb' = Compress(h_rgb)
            /\ pcd' = Compress(pcd)
            /\ quaternion_true' = Compress(quaternion_true)
            /\ translation_true' = Compress(translation_true)
            /\ pc' = "predict"
            /\ UNCHANGED loss
    /\ UNCHANGED <<dataset, model, train, entry, error, locals, outputs, prev, loss_i,
                   reported>>

\* '%04d' of a class number below 10000.
Pad4(c) ==
    (IF c < 10 THEN "000" ELSE IF c < 100 THEN "00"
     ELSE IF c < 1000 THEN "0" ELSE "") \o ToString(c)

\* Lines 284-290: the keys evaluate adds for an instance of class c.
MetricKeys(c) ==
    IF train THEN {"add", "add_s"}
    ELSE {"add/" \o Pad4(c), "add_s/" \o Pad4(c)}

\* Lines 234-240 and 251-291: evaluate reports the mean of every key.
Evaluate ==
    /\ pc = "evaluate"
    /\ reported' = reported \cup UNION {MetricKeys(class_id[k]) : k \in Batch}
    /\ pc' = "loss"
    /\ i' = 0
    /\ loss' = QInt(0)
    /\ UNCHANGED <<dataset, model, train, entry, inputs, error, h_i, actives_i, n_fuse,
                   indices, fused, h, actives, centroids, outputs, prev,
                   loss_i>>

\* Lines 324-377: one round of the loop of loss; a loss_scale without the key
\* 'add+add_s' raises KeyError in that mode.
LossStep ==
    /\ pc = "loss"
    /\ IF self_loss = "add+add_s" /\ "add+add_s" \notin DOMAIN self_loss_scale
       THEN /\ error' = "KeyError"
            /\ pc' = "raised"
            /\ UNCHANGED <<i, loss, loss_i>>
       ELSE /\ loss_i' = LossTerm(i)
            /\ loss' = QAdd(loss, LossTerm(i))
            /\ i' = i + 1
            /\ pc' = IF i + 1 < B THEN "loss" ELSE "loss_end"
            /\ UNCHANGED error
    /\ UNCHANGED <<dataset, model, train, entry, inputs, h_i, actives_i, n_fuse,
                   indices, fused, h, actives, centroids, outputs, prev,
                   reported>>

\* Lines 378-383 and 249: the mean over the batch, reported and returned.
LossReturn ==
    /\ pc = "loss_end"
    /\ loss' = QMul(loss, Frac(1, B))
    /\ reported' = reported \cup {"loss"}
    /\ pc' = "returned"
    /\ UNCHANGED <<dataset, model, train, entry, inputs, error, locals, outputs, prev,
                   loss_i>>

\* A view of an instance that the data pipeline marked invalid (class_id -1).
InvalidViews ==
    { [class_id |-> 0 - 1, pitch |-> 1, origin |-> 0,
       pcd |-> <<Pix(0), Pix(1)>>, h_rgb |-> <<1, 2>>,
       quaternion_true |-> 1, translation_true |-> 0] }

\* A caller of __call__ on a constructed model: a batch of 1..MaxB views,
\* some perhaps invalid, with the ground truth.
InitCall ==
    /\ train \in BOOLEAN
    /\ entry = "__call__"
    /\ pc = "call"
    /\ \E n \in 1..MaxB : \E views \in [0..(n - 1) -> Views \cup InvalidViews] :
           /\ BatchOf(views)
           /\ quaternion_true =
                  [k \in DOMAIN views |-> views[k].quaternion_true]
           /\ translation_true =
                  [k \in DOMAIN views |-> views[k].translation_true]
    /\ \E l \in LossArgs, ls \in LossScaleArgs : Constructed(l, ls)
    /\ Idle
    /\ DatasetIdle

NextCall == CallFilter \/ Predict \/ Evaluate \/ LossStep \/ LossReturn

SpecCall == InitCall /\ [][NextCall]_vars

\* ------------------------------------------------------------------------
\* YCBVideoMultiViewPoseEstimationDataset

\* The largest frame number of a video.
MaxFrame == 2
\* The largest sampling value.
MaxSampling == 2
\* The largest frame number of the long video that is scanned.
MaxScanFrame == 13

\* The videos of the dataset.
VideoIds == <<"0001", "0002">>

\* f'{n:06d}' for 0 <= n < 100.
Pad6(n) == (IF n < 10 THEN "00000" ELSE "0000") \o ToString(n)

FrameNumbers ==
    1..(IF MaxFrame > MaxScanFrame THEN MaxFrame ELSE MaxScanFrame)

\* The image id '<video>/<frame>' of frame n of a video.
get_image_id(video_id, n) == video_id \o "/" \o Pad6(n)

\* Every image of the dataset, by video and then by frame.
AllImages ==
    [m \in 1..(Len(VideoIds) * MaxFrame) |->
        get_image_id(VideoIds[((m - 1) \div MaxFrame) + 1],
                     ((m - 1) % MaxFrame) + 1)]

\* image_id.split('/'), and int(frame_id).
Split(image_id) ==
    CHOOSE p \in Range(VideoIds) \X {Pad6(n) : n \in FrameNumbers} :
        p[1] \o "/" \o p[2] = image_id
IntOf(frame_id) == CHOOSE n \in FrameNumbers : Pad6(n) = frame_id

\* The cls_indexes a frame's meta can hold.
ClassLists == {<<1>>, <<2>>, <<1, 2>>}

\* The entries of s at the positions in P, in order.
RECURSIVE Pick(_, _, _)
Pick(s, P, m) ==
    IF m > Len(s) THEN <<>>
    ELSE (IF m \in P THEN <<s[m]>> ELSE <<>>) \o Pick(s, P, m + 1)

\* Lines 36-45: one line of the image-set file.
GetIdsLine ==
    /\ ds_pc = "get_ids"
    /\ line < Len(imageset_file)
    /\ LET image_id == imageset_file[line + 1]
           video_id == Split(image_id)[1]
           frame_id == Split(image_id)[2]
       IN  IF IntOf(frame_id) % sampling = 0
           THEN LET class_ids ==
                        IF video_id \in DOMAIN video2class_ids
                        THEN video2class_ids[video_id]
                        ELSE frames[image_id]
                IN  /\ video2class_ids' =
                           IF video_id \in DOMAIN video2class_ids
                           THEN video2class_ids
                           ELSE video2class_ids @@ (video_id :> class_ids)
                    /\ ids' = ids \o [m \in 1..Len(class_ids) |->
                                         <<image_id, class_ids[m]>>]
           ELSE UNCHANGED <<video2class_ids, ids>>
    /\ line' = line + 1
    /\ UNCHANGED <<frames, imageset_file, sampling, ds_pc, frame_ids,
                   scan_image_id, ds_error>>
    /\ UNCHANGED <<train, entry, inputs, pc, error, locals, outputs, prev,
                   model, callst>>

\* Lines 46-47: the end of the file.
GetIdsReturn ==
    /\ ds_pc = "get_ids"
    /\ line = Len(imageset_file)
    /\ ds_pc' = "ready"
    /\ UNCHANGED <<frames, imageset_file, sampling, line, video2class_ids, ids,
                   frame_ids, scan_image_id, ds_error>>
    /\ UNCHANGED <<train, entry, inputs, pc, error, locals, outputs, prev,
                   model, callst>>

\* Lines 129-130: the assertion of _get_scan_data.
ScanPrecondition(image_id, c) == c \in Range(frames[image_id])

\* The ascending sequence of a finite set of numbers.
RECURSIVE Sorted(_)
Sorted(S) ==
    IF S = {} THEN <<>>
    ELSE LET m == CHOOSE x \in S : \A y \in S : x <= y
         IN  <<m>> \o Sorted(S \ {m})

\* The frames up to and including frame n.
EarlierFramesInclusive(n) == {[m \in 1..n |-> m]}

\* Lines 151-154: the frames before frame n, all of them if at most 9 and
\* otherwise 9 of them picked at random, kept in ascending order.
EarlierFrames(n) ==
    IF n - 1 > 9
    THEN {Sorted(S) : S \in {T \in SUBSET (1..(n - 1)) : Cardinality(T) = 9}}
    ELSE {[m \in 1..(n - 1) |-> m]}

\* getitem_from_id on an id of get_ids: _get_scan_data, lines 114-186.
GetScanData ==
    /\ ds_pc = "ready"
    /\ \E m \in 1..Len(ids) :
           LET image_id == ids[m][1]
               frame_id == Split(image_id)[2]
           IN  /\ scan_image_id' = image_id
               /\ IF ScanPrecondition(image_id, ids[m][2])
                  THEN /\ \E earlier \in EarlierFrames(IntOf(frame_id)) :
                              frame_ids' = [k \in 1..Len(earlier) |->
                                               Pad6(earlier[k])] \o <<frame_id>>
                       /\ UNCHANGED <<ds_pc, ds_error>>
                  ELSE /\ ds_error' = "AssertionError"
                       /\ ds_pc' = "raised"
                       /\ UNCHANGED frame_ids
    /\ UNCHANGED <<frames, imageset_file, sampling, line, video2class_ids, ids>>
    /\ UNCHANGED <<train, entry, inputs, pc, error, locals, outputs, prev,
                   model, callst>>

\* No model in use.
ModelIdle ==
    /\ train = FALSE
    /\ entry = "none"
    /\ pc = "idle"
    /\ class_id = <<>>
    /\ pitch = <<>>
    /\ origin = <<>>
    /\ h_rgb = <<>>
    /\ pcd = <<>>
    /\ quaternion_true = None
    /\ translation_true = None
    /\ Constructed("None", [none |-> TRUE, dict |-> <<>>])
    /\ Idle

\* A caller of get_ids: a dataset whose frames each list some classes, an
\* image-set file listing some of its images in order, a sampling value.
InitIds ==
    /\ frames \in [Range(AllImages) -> ClassLists]
    /\ \E P \in SUBSET (1..Len(AllImages)) : imageset_file = Pick(AllImages, P, 1)
    /\ sampling \in 1..MaxSampling
    /\ ds_pc = "get_ids"
    /\ line = 0
    /\ video2class_ids = <<>>
    /\ ids = <<>>
    /\ frame_ids = <<>>
    /\ scan_image_id = ""
    /\ ds_error = "none"
    /\ ModelIdle

NextIds == GetIdsLine \/ GetIdsReturn \/ GetScanData

SpecIds == InitIds /\ [][NextIds]_vars

\* The images of a video of MaxScanFrame frames, in order.
LongVideo == [n \in 1..MaxScanFrame |-> get_image_id(VideoIds[1], n)]

\* A caller of get_ids and then of getitem_from_id on a dataset that is one
\* long video whose frames all list the same classes.
InitScan ==
    /\ \E cl \in ClassLists : frames = [img \in Range(LongVideo) |-> cl]
    /\ imageset_file = LongVideo
    /\ sampling \in 1..MaxSampling
    /\ ds_pc = "get_ids"
    /\ line = 0
    /\ video2class_ids = <<>>
    /\ ids = <<>>
    /\ frame_ids = <<>>
    /\ scan_image_id = ""
    /\ ds_error = "none"
    /\ ModelIdle

SpecScan == InitScan /\ [][NextIds]_vars

\* C10: every id get_ids returns satisfies the assertion of _get_scan_data,
\* so getitem_from_id never fails it on such an id, also when the frames of a
\* video list different classes.
C10_IdsSatisfyScanPrecondition ==
    /\ \A m \in 1..Len(ids) : ScanPrecondition(ids[m][1], ids[m][2])
    /\ ds_error # "AssertionError"

\* ------------------------------------------------------------------------
\* Properties of predict.

\* The fusion loop of instance i has ended.
FusionEnded == pc = "fuse" /\ indices = <<>>

Injective(s) == \A k, l \in DOMAIN s : k # l => s[k] # s[l]

\* C1: in training mode, for an instance with at least one candidate view,
\* the views fused into it are as many as the number n_fuse drawn, and they
\* are distinct candidates; a draw of 0 fuses none.
C1_FusedCountIsDraw ==
    (train /\ FusionEnded /\ Len(Candidates(i)) >= 1)
        => /\ Len(fused[i]) = n_fuse
           /\ Injective(fused[i])
           /\ Range(fused[i]) \subseteq Range(Candidates(i))

\* C2: every view fused into an instance is another batch element of the
\* same class as the instance.
C2_FusedSameClass ==
    \A k \in DOMAIN fused : \A m \in 1..Len(fused[k]) :
        /\ fused[k][m] # k
        /\ class_id[fused[k][m]] = class_id[k]

\* The largest of a nonempty finite set of fractions.
QMaxOf(S) == CHOOSE m \in S : \A q \in S : ~QLess(m, q)

\* C3: the grid appended for an instance is the cellwise maximum of its
\* primary grid and the grids of the views fused into it, whatever their
\* order, and its mask is the OR of their masks; with no view fused both are
\* the primary view's own.
C3_FusedIsMaxAndUnion ==
    \A k \in DOMAIN h :
        LET S == Range(fused[k])
            P == PrimaryVoxelization(k)
        IN  /\ h[k] = [x \in Cells |->
                          QMaxOf({P.grid[x]} \cup
                                 {AuxVoxelization(k, j).grid[x] : j \in S})]
            /\ actives[k] = [x \in Cells |->
                                \/ P.counts[x] > 0
                                \/ \E j \in S : AuxVoxelization(k, j).counts[x] > 0]
            /\ (S = {} => h[k] = P.grid /\ actives[k] = Occupied(P.counts))

\* A call returned with an instance whose grid and mask a fused view changed.
C3_Witness ==
    /\ pc = "returned"
    /\ \E k \in DOMAIN h :
           /\ fused[k] # <<>>
           /\ h[k] # PrimaryVoxelization(k).grid
           /\ actives[k] # Occupied(PrimaryVoxelization(k).counts)

\* Element k has the same inputs in this call as in the previous one.
SameInputs(k) ==
    /\ class_id[k] = prev.class_id[k]
    /\ pitch[k] = prev.pitch[k]
    /\ origin[k] = prev.origin[k]
    /\ h_rgb[k] = prev.h_rgb[k]
    /\ pcd[k] = prev.pcd[k]
    /\ quaternion_true[k] = prev.quaternion_true[k]
    /\ translation_true[k] = prev.translation_true[k]

\* Element k has the same grid, mask and centroid as in the previous call, as
\* far as this call has computed them.
SameResults(k) ==
    /\ h[k] = prev.h[k]
    /\ actives[k] = prev.actives[k]
    /\ k \in DOMAIN centroids => centroids[k] = prev.centroids[k]

\* C4 as claimed: in either mode, an element with the same inputs in two
\* calls has the same grid, mask and centroid in both, whatever the inputs of
\* the other elements.
C4_OwnInputsOnly ==
    prev # None => \A k \in DOMAIN h : SameInputs(k) => SameResults(k)

\* C4: an element's grid, mask and centroid depend only on its own inputs and
\* on the inputs of the views fused into it; in inference mode no view is
\* fused, so they depend on its own inputs alone.
C4_OwnAndFusedInputsOnly ==
    prev # None =>
        \A k \in DOMAIN h :
            /\ ~train => fused[k] = <<>> /\ prev.fused[k] = <<>>
            /\ ( /\ SameInputs(k)
                 /\ \A j \in Range(fused[k]) \cup Range(prev.fused[k]) :
                        SameInputs(j) )
               => SameResults(k)

\* In training mode a second call returned in which an element kept its own
\* inputs and those of the one view fused into it, a third element's inputs
\* changed, and the fused view had changed the element's grid in both calls.
C4_Witness ==
    /\ train
    /\ prev # None
    /\ pc = "returned"
    /\ \E k, j \in Batch :
           /\ k # j
           /\ fused[k] # <<>>
           /\ fused[k] = prev.fused[k]
           /\ j \notin Range(fused[k]) \cup {k}
           /\ SameInputs(k)
           /\ \A f \in Range(fused[k]) : SameInputs(f)
           /\ ~SameInputs(j)
           /\ h[k] # PrimaryVoxelization(k).grid
           /\ h[k] = prev.h[k]

\* C5: an instance whose fused mask has no occupied cell gets no centroid:
\* predict raises EmptyOccupancyError instead.
C5_EmptyMaskRaises ==
    \A k \in DOMAIN centroids :
        ActiveCells(actives[k]) = {} => error = "EmptyOccupancyError"

\* C6: in inference mode predict does not fail for want of the ground truth.
C6_InferenceWithoutGroundTruth ==
    (~train /\ quaternion_true = None /\ translation_true = None)
        => pc # "raised"

\* C7: in inference mode the grid, mask and centroid of every instance are
\* those of its own view's voxelization, a function of its features, points,
\* origin and pitch alone; no view is selected or merged.
C7_InferenceIsPrimaryOnly ==
    ~train =>
        /\ indices = <<>>
        /\ \A k \in DOMAIN fused : fused[k] = <<>>
        /\ \A k \in DOMAIN h :
               LET P == average_voxelization_3d(
                            Masked(h_rgb[k], pcd[k]),
                            Masked(Coords(pcd[k]), pcd[k]),
                            origin[k], pitch[k])
               IN  /\ h[k] = P.grid
                   /\ actives[k] = Occupied(P.counts)
                   /\ k \in DOMAIN centroids =>
                          centroids[k] =
                              Centroid(Occupied(P.counts), pitch[k], origin[k])

\* An inference call returned for a batch in which training would have fused
\* a view into an instance and changed its grid.
C7_Witness ==
    /\ ~train
    /\ pc = "returned"
    /\ \E k \in Batch :
           /\ Candidates(k) # <<>>
           /\ \E j \in Range(Candidates(k)) :
                  maximum(h[k], AuxVoxelization(k, j).grid) # h[k]

\* ------------------------------------------------------------------------
\* Properties of __call__ and loss.

\* ADD and ADD-S of instance k under its true and predicted transforms.
ADD(k) == average_distance_l1(get_pcd(class_id[k]), T_cad2cam_true(k),
                              T_cad2cam_pred(k), FALSE)
ADD_S(k) == average_distance_l1(get_pcd(class_id[k]), T_cad2cam_true(k),
                                T_cad2cam_pred(k), TRUE)

\* loss() has just computed the term of instance i - 1.
TermComputed == pc \in {"loss", "loss_end"} /\ i > 0

\* What the claim says the term of instance k is, for a weight w.
TermByMode(k, w) ==
    /\ self_loss = "add" => loss_i = ADD(k)
    /\ self_loss = "add_s" => loss_i = ADD_S(k)
    /\ self_loss = "add/add_s" =>
           loss_i = IF class_id[k] \in class_ids_symmetric
                    THEN ADD_S(k) ELSE ADD(k)
    /\ self_loss = "add+add_s" =>
           loss_i = QAdd(QMul(w, ADD(k)), QMul(QSub(QInt(1), w), ADD_S(k)))
    /\ loss_arg = "None" => self_loss = "add/add_s"
    /\ (self_loss = "add+add_s" /\ loss_scale_arg.none) => w = <<1, 2>>

\* C8 as claimed: the term is ADD, ADD-S, the class's choice of the two, or
\* w ADD + (1 - w) ADD-S with a weight w between 0 and 1.
C8_LossTermConvex ==
    TermComputed =>
        /\ TermByMode(i - 1, self_loss_scale["add+add_s"])
        /\ self_loss = "add+add_s" =>
               /\ ~QLess(self_loss_scale["add+add_s"], QInt(0))
               /\ ~QLess(QInt(1), self_loss_scale["add+add_s"])

\* C8: the term is ADD, ADD-S, the class's choice of the two, or
\* w ADD + (1 - w) ADD-S with w the configured weight, whatever its value,
\* and 1/2 when loss_scale was not given.
C8_LossTermByMode ==
    TermComputed => TermByMode(i - 1, self_loss_scale["add+add_s"])

\* loss() computed a weighted term with the weight 1/4 for an instance whose
\* ADD and ADD-S differ.
C8_Witness ==
    /\ TermComputed
    /\ self_loss = "add+add_s"
    /\ self_loss_scale["add+add_s"] = <<1, 4>>
    /\ ~IsNaN(loss_i)
    /\ ADD(i - 1) # ADD_S(i - 1)

\* C9: when every instance of the batch has class_id -1, __call__ returns the
\* loss 0 without raising and without running predict, evaluate or loss, so
\* nothing is reported.
C9_EmptyBatchReturnsZero ==
    (entry = "__call__" /\ pc # "call" /\ \A k \in Batch : class_id[k] = 0 - 1)
        => /\ pc = "returned"
           /\ error = "none"
           /\ loss = QInt(0)
           /\ reported = {}
           /\ h = <<>> /\ actives = <<>> /\ centroids = <<>>
           /\ quaternion = <<>> /\ translation = <<>>

\* __call__ returned for a batch of two invalid instances.
C9_Witness ==
    /\ entry = "__call__"
    /\ pc = "returned"
    /\ B = 2
    /\ \A k \in Batch : class_id[k] = 0 - 1

\* ------------------------------------------------------------------------
\* Properties of _get_scan_data.

\* The frame numbers of the views of the last scan, in order.
ScanNumbers == [k \in 1..Len(frame_ids) |-> IntOf(frame_ids[k])]

\* The number of the frame the last scan was asked for.
ScanFrame == IntOf(Split(scan_image_id)[2])

\* C11: the view sequence of a scan of frame n is min(n - 1, 9) distinct
\* frames with numbers in 1..n-1 in strictly ascending order, followed by
\* frame n itself; so it has at most 10 views, none later than n and none
\* twice, and holds every earlier frame when there are at most 9.
C11_ViewsAreEarlierFramesThenSelf ==
    frame_ids # <<>> =>
        LET n == ScanFrame
            m == Len(frame_ids) - 1
        IN  /\ n >= 1
            /\ m = (IF n - 1 < 9 THEN n - 1 ELSE 9)
            /\ frame_ids[m + 1] = Pad6(n)
            /\ \A k \in 1..m : ScanNumbers[k] \in 1..(n - 1)
            /\ \A k, l \in 1..m : k < l => ScanNumbers[k] < ScanNumbers[l]
            /\ Len(frame_ids) <= 10
            /\ \A k, l \in 1..(m + 1) : k # l => frame_ids[k] # frame_ids[l]
            /\ n - 1 <= 9 => {ScanNumbers[k] : k \in 1..m} = 1..(n - 1)

\* A scan of a frame with more than 9 earlier frames left out frame 1 and
\* some frame between two it kept.
C11_Witness ==
    /\ frame_ids # <<>>
    /\ ScanFrame - 1 > 9
    /\ frame_ids[1] # Pad6(1)
    /\ \E k \in 1..8 : ScanNumbers[k + 1] > ScanNumbers[k] + 1

====
